---- MODULE Spec2Model ----
(***************************************************************************)
(* Model of wheatley's graph feature extractor                             *)
(* (src/models/features_extractor.py, class FeaturesExtractor).            *)
(*                                                                         *)
(* Node indices, graph ids and machine ids are 0-based as in the source;   *)
(* TLA+ sequences are 1-based, so element i of a tensor t is t[i + 1].     *)
(* A node-feature row is the sequence of its columns: column 0 is the      *)
(* affectation flag, columns 6 .. 6+max_n_machines-1 the machine block.    *)
(* An edge is a pair <<edge_index[0][k], edge_index[1][k]>>.               *)
(***************************************************************************)
EXTENDS Integers, Sequences, FiniteSets, TLC

VARIABLES
    constructed,      \* how __init__ ended: "none" (not run) | "ok" | "SystemExit" | "NameError"
    self,             \* the attributes of the FeaturesExtractor object
    called,           \* how the last forward ended: "none" | "ok" | "Exception"
    graph_state,      \* observation.to_graph() of the last forward call
    features,         \* forward's local `features` when the layers start (line 404)
    edge_index_built, \* forward's local `edge_index` before the direction swap (line 400)
    edge_index,       \* forward's local `edge_index` as handed to the layers (line 403)
    edge_attr,        \* forward's local `edge_attr`: one sequence per layer
    batch_id,         \* forward's local `batch_id` (<<>> when normalize is off)
    node_offset,      \* forward's local `node_offset` after conflict handling
    pool_edges,       \* the <<source, target, code>> triples appended by lines 237-264
    conflict_edges,   \* the <<source, target, code>> triples appended by lines 267-396
    features_list,    \* forward's local `features_list` at the final concatenation
    layer_input,      \* the tensor passed to each layer's convolution (line 418)
    layer_conv,       \* each layer's tensor after convolution, ELU and auxiliary MLP (line 422)
    result,           \* what forward returns
    x_after,          \* the content of graph_state.x when forward returns
    affectations,     \* utils: the affectations array (one row per job)
    durations,        \* utils: the durations array (per job and machine: real, min, max, mode)
    sanity            \* utils: the last call of check_sanity / load_problem and how it ended

vars == <<constructed, self, called, graph_state, features, edge_index_built,
          edge_index, edge_attr, batch_id, node_offset, pool_edges,
          conflict_edges, features_list, layer_input, layer_conv, result,
          x_after, affectations, durations, sanity>>

fwdvars == <<called, graph_state, features, edge_index_built, edge_index,
             edge_attr, batch_id, node_offset, pool_edges, conflict_edges,
             features_list, layer_input, layer_conv, result, x_after>>

utilvars == <<affectations, durations, sanity>>

(***************************************************************************)
(* Bounds of the model.                                                    *)
(***************************************************************************)
MaxMachines == 2

MaxGraphs == 2

MaxNodes == 3

MaxTotalNodes == 4

MaxLayers == 2

HiddenDim == 3

NHeads == 2

(***************************************************************************)
(* Program constants.                                                      *)
(***************************************************************************)
MachineCol == 6

PrecedenceCode == 1

PoolingCode == 2

ConflictCodeBase == 3

EmbeddingBase == 5

PdnEdgeDim == 1

InputDim == MachineCol + MaxMachines

At(t, i) == t[i + 1]

Range(s) == {s[k] : k \in 1..Len(s)}

(***************************************************************************)
(* The observation-to-graph collaborator: a batch of num_graphs graphs of  *)
(* n_nodes nodes each, chained by precedence edges.                        *)
(***************************************************************************)
Row(aff, m) ==
    [c \in 1..InputDim |->
        IF c = 1 THEN aff
        ELSE IF c <= MachineCol THEN 1
        ELSE IF c - MachineCol - 1 = m THEN 1 ELSE 0]

ZeroRow == [c \in 1..InputDim |-> 0]

NodeRows == {Row(aff, m) : aff \in {0, 1}, m \in -1..(MaxMachines - 1)}

Shapes ==
    {sh \in (1..MaxGraphs) \X (1..MaxNodes) : sh[1] * sh[2] <= MaxTotalNodes}

PrecedenceEdges(B, n) ==
    LET prec == [k \in 1..(B * n) |-> <<k - 1, k>>]
    IN SelectSeq(prec, LAMBDA e : e[2] % n # 0)

ToGraph(B, n, x) ==
    [x |-> x,
     edge_index |-> PrecedenceEdges(B, n),
     batch |-> [k \in 1..(B * n) |-> (k - 1) \div n],
     ptr |-> [g \in 1..(B + 1) |-> (g - 1) * n],
     num_graphs |-> B,
     batch_size |-> B,
     n_nodes |-> n]

\* the batches of shape sh
Observations(sh) ==
    {ToGraph(sh[1], sh[2], x) : x \in [1..(sh[1] * sh[2]) -> NodeRows]}

NoGraph == ToGraph(0, 0, <<>>)

(***************************************************************************)
(* __init__ (lines 39-210).                                                *)
(***************************************************************************)
GconvTypes == {"gin", "gatv2", "eg", "pdn", "gcn2"}

PoolingModes == {"max", "avg", "learn", "learned"}

ConflictModes == {"clique", "node", "att"}

CtorArgs ==
    [gconv_type : GconvTypes,
     graph_pooling : PoolingModes,
     graph_has_relu : BOOLEAN,
     n_layers_features_extractor : 0..MaxLayers,
     reverse_adj : BOOLEAN,
     residual : BOOLEAN,
     normalize : BOOLEAN,
     conflicts : ConflictModes]

Embedding(num_embeddings, embedding_dim) ==
    [num_embeddings |-> num_embeddings, embedding_dim |-> embedding_dim]

\* EdgeEmbedders with the 5-row table whatever the conflict mode
EdgeEmbeddersBaseOnly(a) ==
    LET dim == IF a.gconv_type \in {"gcn2"} THEN 1 ELSE HiddenDim
    IN [layer \in 1..a.n_layers_features_extractor |-> Embedding(EmbeddingBase, dim)]

\* lines 91-106: the per-layer edge-attribute encoders
EdgeEmbedders(a) ==
    LET dim == IF a.gconv_type \in {"gcn2"} THEN 1 ELSE HiddenDim
        nmachineid == IF a.conflicts = "clique" THEN MaxMachines ELSE MaxMachines * 2
        num == IF a.conflicts \in {"clique", "node"}
               THEN EmbeddingBase + nmachineid + 1
               ELSE EmbeddingBase
    IN [layer \in 1..a.n_layers_features_extractor |-> Embedding(num, dim)]

\* lines 61-127: everything __init__ sets before the layer loop
InitAttributes(a) ==
    [conflicts |-> a.conflicts,
     highmem_conflict_clique |-> FALSE,
     mediummem_conflict_clique |-> TRUE,
     residual |-> a.residual,
     normalize |-> a.normalize,
     features_dim |-> 2 * (InputDim + HiddenDim * (a.n_layers_features_extractor + 1)),
     max_n_machines |-> MaxMachines,
     reverse_adj |-> a.reverse_adj,
     hidden_dim_features_extractor |-> HiddenDim,
     gconv_type |-> a.gconv_type,
     graph_has_relu |-> a.graph_has_relu,
     graph_pooling |-> a.graph_pooling,
     n_layers_features_extractor |-> a.n_layers_features_extractor,
     features_extractors |-> <<>>,
     edge_embedder |-> EdgeEmbedders(a),
     norms |-> <<>>,
     normsbis |-> <<>>,
     mlps |-> <<>>,
     raised |-> "none"]

Conv(op, edge_dim, heads) ==
    [op |-> op, edge_dim |-> edge_dim, heads |-> heads, fill_value |-> "mean"]

\* lines 131-206: one iteration of the layer loop (edge_dim 0: the operator
\* is built without an edge dimension)
CtorLayer(s) ==
    LET s1 == IF s.normalize
              THEN [s EXCEPT !.norms = Append(@, "GraphNorm"),
                             !.normsbis = Append(@, "GraphNorm")]
              ELSE s
    IN CASE s.gconv_type = "gin" ->
              \* line 148 names GINConv; line 30 imports GINEConv only
              [s1 EXCEPT !.raised = "NameError"]
         [] s.gconv_type = "gatv2" ->
              [s1 EXCEPT !.features_extractors =
                             Append(@, Conv("GATv2Conv", HiddenDim, NHeads)),
                         !.mlps = Append(@, "MLP")]
         [] s.gconv_type = "eg" ->
              [s1 EXCEPT !.features_extractors = Append(@, Conv("EGConv", 0, 1))]
         [] s.gconv_type = "pdn" ->
              [s1 EXCEPT !.features_extractors =
                             Append(@, Conv("PDNConv", PdnEdgeDim, 1))]
         [] OTHER ->
              [s1 EXCEPT !.raised = "SystemExit"]

RECURSIVE CtorLoop(_, _)
CtorLoop(s, layer) ==
    IF layer >= s.n_layers_features_extractor \/ s.raised # "none"
    THEN s
    ELSE CtorLoop(CtorLayer(s), layer + 1)

Ctor(a) == CtorLoop(InitAttributes(a), 0)

CtorOutcome(s) == IF s.raised = "none" THEN "ok" ELSE s.raised

NoObject == InitAttributes(
    [gconv_type |-> "gatv2", graph_pooling |-> "max", graph_has_relu |-> FALSE,
     n_layers_features_extractor |-> 0, reverse_adj |-> FALSE, residual |-> TRUE,
     normalize |-> FALSE, conflicts |-> "att"])

NotCalled ==
    /\ called = "none"
    /\ graph_state = NoGraph
    /\ features = <<>>
    /\ edge_index_built = <<>>
    /\ edge_index = <<>>
    /\ edge_attr = <<>>
    /\ batch_id = <<>>
    /\ node_offset = 0
    /\ pool_edges = <<>>
    /\ conflict_edges = <<>>
    /\ features_list = <<>>
    /\ layer_input = <<>>
    /\ layer_conv = <<>>
    /\ result = <<>>
    /\ x_after = <<>>

NoCall == [op |-> "none"]

\* the loader of src/utils/utils.py is not in use
NoProblem ==
    /\ affectations = <<>>
    /\ durations = <<>>
    /\ sanity = NoCall

Init ==
    /\ constructed = "none"
    /\ self = NoObject
    /\ NotCalled
    /\ NoProblem

Construct(a) ==
    /\ constructed = "none"
    /\ self' = Ctor(a)
    /\ constructed' = CtorOutcome(Ctor(a))
    /\ UNCHANGED <<fwdvars, utilvars>>

(***************************************************************************)
(* forward, graph augmentation (lines 223-402).  The working values are    *)
(* carried in a record st: features, edge_index, edge_attr, batch_id,      *)
(* node_offset, plus the triples each stage appended.                      *)
(***************************************************************************)
NLayers(s) == s.n_layers_features_extractor

\* self.edge_embedder[layer](codes): row k is the table row of codes[k]
EmbedCodes(s, layer, codes) ==
    [k \in 1..Len(codes) |-> [layer |-> layer - 1, code |-> codes[k]]]

\* CatEdgeAttr with the first layer's encoder applied for every layer
CatEdgeAttrFirstEncoder(s, ea, codes) ==
    [layer \in 1..NLayers(s) |-> ea[layer] \o EmbedCodes(s, 1, codes)]

\* edge_attr[layer] = torch.cat([edge_attr[layer], self.edge_embedder[layer](codes)])
CatEdgeAttr(s, ea, codes) ==
    [layer \in 1..NLayers(s) |-> ea[layer] \o EmbedCodes(s, layer, codes)]

Triples(ei0, ei1, cea) == [k \in 1..Len(ei0) |-> <<ei0[k], ei1[k], cea[k]>>]

EdgesOf(triples) == [k \in 1..Len(triples) |-> <<triples[k][1], triples[k][2]>>]

CodesOf(triples) == [k \in 1..Len(triples) |-> triples[k][3]]

\* lines 223-235; x is the content of the collaborator's tensor
\* graph_state.x, and aliased tells whether `features` is still that tensor
Start(s, gs) ==
    [features |-> gs.x,
     x |-> gs.x,
     aliased |-> TRUE,
     edge_index |-> gs.edge_index,
     edge_attr |-> CatEdgeAttr(s, [layer \in 1..NLayers(s) |-> <<>>],
                               [k \in 1..Len(gs.edge_index) |-> PrecedenceCode]),
     batch_id |-> IF s.normalize THEN gs.batch ELSE <<>>,
     node_offset |-> Len(gs.x),
     pool_edges |-> <<>>,
     conflict_edges |-> <<>>]

\* PoolEi0 with every real node joined to the first pooling node
RECURSIVE PoolEi0FirstPool(_, _, _)
PoolEi0FirstPool(gs, offset, i) ==
    IF i >= gs.num_graphs THEN <<>>
    ELSE [k \in 1..(At(gs.ptr, i + 1) - At(gs.ptr, i)) |-> offset]
         \o PoolEi0FirstPool(gs, offset, i + 1)

\* lines 241-243: ei0 and ei1 of the pooling edges
RECURSIVE PoolEi0(_, _, _)
PoolEi0(gs, offset, i) ==
    IF i >= gs.num_graphs THEN <<>>
    ELSE [k \in 1..(At(gs.ptr, i + 1) - At(gs.ptr, i)) |-> offset + i]
         \o PoolEi0(gs, offset, i + 1)

RECURSIVE PoolEi1(_, _)
PoolEi1(gs, i) ==
    IF i >= gs.num_graphs THEN <<>>
    ELSE [k \in 1..(At(gs.ptr, i + 1) - At(gs.ptr, i)) |-> At(gs.ptr, i) + k - 1]
         \o PoolEi1(gs, i + 1)

\* PoolingStage with the pooling edges built pool -> node whatever reverse_adj
PoolingStageNoBranch(s, gs, st) ==
    IF s.graph_pooling = "learn"
    THEN LET n_batch == gs.num_graphs
             ei0 == PoolEi0(gs, st.node_offset, 0)
             ei1 == PoolEi1(gs, 0)
             codes == [k \in 1..Len(ei0) |-> PoolingCode]
             new == Triples(ei0, ei1, codes)
         IN [st EXCEPT
                !.edge_index = @ \o EdgesOf(new),
                !.features = @ \o [g \in 1..n_batch |-> ZeroRow],
                !.aliased = FALSE,
                !.batch_id = IF s.normalize
                             THEN @ \o [g \in 1..n_batch |-> g - 1] ELSE @,
                !.edge_attr = CatEdgeAttr(s, @, codes),
                !.node_offset = @ + n_batch,
                !.pool_edges = new]
    ELSE st

\* lines 237-264
PoolingStage(s, gs, st) ==
    IF s.graph_pooling = "learn"
    THEN LET n_batch == gs.num_graphs
             ei0 == PoolEi0(gs, st.node_offset, 0)
             ei1 == PoolEi1(gs, 0)
             codes == [k \in 1..Len(ei0) |-> PoolingCode]
             new == IF ~s.reverse_adj THEN Triples(ei0, ei1, codes)
                    ELSE Triples(ei1, ei0, codes)
         IN [st EXCEPT
                !.edge_index = @ \o EdgesOf(new),
                !.features = @ \o [g \in 1..n_batch |-> ZeroRow],
                !.aliased = FALSE,
                !.batch_id = IF s.normalize
                             THEN @ \o [g \in 1..n_batch |-> g - 1] ELSE @,
                !.edge_attr = CatEdgeAttr(s, @, codes),
                !.node_offset = @ + n_batch,
                !.pool_edges = new]
    ELSE st

\* torch.max(machine, dim=1) on one row: <<value, index>>, scanning from
\* column k with the maximum mx found at index ix so far
RECURSIVE MaxFrom(_, _, _, _)
MaxFrom(v, k, mx, ix) ==
    IF k > Len(v) THEN <<mx, ix>>
    ELSE IF v[k] > mx THEN MaxFrom(v, k + 1, v[k], k - 1)
         ELSE MaxFrom(v, k + 1, mx, ix)

TorchMax(v) == MaxFrom(v, 2, v[1], 0)

MachineBlock(s, row) == SubSeq(row, MachineCol + 1, MachineCol + s.max_n_machines)

\* machineid = torch.where(mmax[0] == 0, -1, mmax[1]), for one row
MachineId(s, row) ==
    LET mmax == TorchMax(MachineBlock(s, row))
    IN IF mmax[1] = 0 THEN -1 ELSE mmax[2]

\* a tensor holds its elements: the values of f are computed once
AsTensor(f) == <<>> \o f

\* the index pairs of an n x n matrix in the order nonzero() lists them
AllPairs(n) == [k \in 1..(n * n) |-> <<(k - 1) \div n, (k - 1) % n>>]

\* HighMemConflicts without the same-graph test
HighMemConflictsAnyGraph(s, gs, feats) ==
    LET nnodes == Len(gs.x)
        machineid == AsTensor([i \in 1..nnodes |-> MachineId(s, feats[i])])
        cond(p) ==
            LET aff1 == At(feats, p[2])[1]
                aff2 == At(feats, p[1])[1]
                m1 == At(machineid, p[2])
                m2 == IF At(machineid, p[1]) = -1 THEN -2 ELSE At(machineid, p[1])
            IN /\ m1 = m2
               /\ ~(aff1 # 0 /\ aff2 # 0)
               /\ p[1] # p[2]
        conflicts == SelectSeq(AllPairs(nnodes), cond)
    IN [k \in 1..Len(conflicts) |->
           <<conflicts[k][1], conflicts[k][2],
             At(machineid, conflicts[k][1]) + ConflictCodeBase>>]

\* lines 274-295: one dense comparison over all graphs
HighMemConflicts(s, gs, feats) ==
    LET nnodes == Len(gs.x)
        machineid == AsTensor([i \in 1..nnodes |-> MachineId(s, feats[i])])
        cond(p) ==
            LET aff1 == At(feats, p[2])[1]
                aff2 == At(feats, p[1])[1]
                b1 == At(gs.batch, p[2])
                b2 == At(gs.batch, p[1])
                m1 == At(machineid, p[2])
                m2 == IF At(machineid, p[1]) = -1 THEN -2 ELSE At(machineid, p[1])
            IN /\ m1 = m2 /\ b1 = b2
               /\ ~(aff1 # 0 /\ aff2 # 0)
               /\ p[1] # p[2]
        conflicts == SelectSeq(AllPairs(nnodes), cond)
    IN [k \in 1..Len(conflicts) |->
           <<conflicts[k][1], conflicts[k][2],
             At(machineid, conflicts[k][1]) + ConflictCodeBase>>]

\* MediumMemGraph with unassigned rows left at -1 on both sides
MediumMemGraphUnassigned(s, gs, feats, bi) ==
    LET lo == At(gs.ptr, bi)
        nnodes == At(gs.ptr, bi + 1) - At(gs.ptr, bi)
        rows == SubSeq(feats, lo + 1, lo + nnodes)
        machineid == AsTensor([i \in 1..nnodes |-> MachineId(s, rows[i])])
        cond(p) ==
            LET aff1 == At(rows, p[2])[1]
                aff2 == At(rows, p[1])[1]
                m1 == At(machineid, p[2])
                m2 == At(machineid, p[1])
            IN /\ m1 = m2
               /\ ~(aff1 # 0 /\ aff2 # 0)
               /\ p[1] # p[2]
        conflicts == SelectSeq(AllPairs(nnodes), cond)
    IN [k \in 1..Len(conflicts) |->
           <<conflicts[k][1] + lo, conflicts[k][2] + lo,
             At(machineid, conflicts[k][1]) + ConflictCodeBase>>]

\* MediumMemGraph without the diagonal mask
MediumMemGraphDiagonal(s, gs, feats, bi) ==
    LET lo == At(gs.ptr, bi)
        nnodes == At(gs.ptr, bi + 1) - At(gs.ptr, bi)
        rows == SubSeq(feats, lo + 1, lo + nnodes)
        machineid == AsTensor([i \in 1..nnodes |-> MachineId(s, rows[i])])
        cond(p) ==
            LET aff1 == At(rows, p[2])[1]
                aff2 == At(rows, p[1])[1]
                m1 == At(machineid, p[2])
                m2 == IF At(machineid, p[1]) = -1 THEN -2 ELSE At(machineid, p[1])
            IN /\ m1 = m2
               /\ ~(aff1 # 0 /\ aff2 # 0)
        conflicts == SelectSeq(AllPairs(nnodes), cond)
    IN [k \in 1..Len(conflicts) |->
           <<conflicts[k][1] + lo, conflicts[k][2] + lo,
             At(machineid, conflicts[k][1]) + ConflictCodeBase>>]

\* lines 305-321: the dense comparison of graph bi
MediumMemGraph(s, gs, feats, bi) ==
    LET lo == At(gs.ptr, bi)
        nnodes == At(gs.ptr, bi + 1) - At(gs.ptr, bi)
        rows == SubSeq(feats, lo + 1, lo + nnodes)
        machineid == AsTensor([i \in 1..nnodes |-> MachineId(s, rows[i])])
        cond(p) ==
            LET aff1 == At(rows, p[2])[1]
                aff2 == At(rows, p[1])[1]
                m1 == At(machineid, p[2])
                m2 == IF At(machineid, p[1]) = -1 THEN -2 ELSE At(machineid, p[1])
            IN /\ m1 = m2
               /\ ~(aff1 # 0 /\ aff2 # 0)
               /\ p[1] # p[2]
        conflicts == SelectSeq(AllPairs(nnodes), cond)
    IN [k \in 1..Len(conflicts) |->
           <<conflicts[k][1] + lo, conflicts[k][2] + lo,
             At(machineid, conflicts[k][1]) + ConflictCodeBase>>]

\* lines 304-326: the per-graph loop
RECURSIVE MediumMemConflicts(_, _, _, _)
MediumMemConflicts(s, gs, feats, bi) ==
    IF bi >= gs.num_graphs THEN <<>>
    ELSE MediumMemGraph(s, gs, feats, bi) \o MediumMemConflicts(s, gs, feats, bi + 1)

AllZero(v) == \A k \in 1..Len(v) : v[k] = 0

\* lines 344-358: the inner loop over ni2
RECURSIVE LowMemInner(_, _, _, _, _)
LowMemInner(s, feats, ni1, ni2, hi) ==
    IF ni2 >= hi THEN <<>>
    ELSE LET machine1 == MachineBlock(s, At(feats, ni1))
             machine2 == MachineBlock(s, At(feats, ni2))
             aff1 == At(feats, ni1)[1] = 1
             aff2 == At(feats, ni2)[1] = 1
             mid == TorchMax(machine1)[2] + ConflictCodeBase
             rest == LowMemInner(s, feats, ni1, ni2 + 1, hi)
         IN IF AllZero(machine2) THEN rest
            ELSE IF machine1 = machine2 /\ ~(aff1 /\ aff2)
                 THEN <<<<ni1, ni2, mid>>, <<ni2, ni1, mid>>>> \o rest
                 ELSE rest

\* lines 337-358: the loop over ni1 of one graph
RECURSIVE LowMemOuter(_, _, _, _)
LowMemOuter(s, feats, ni1, hi) ==
    IF ni1 >= hi THEN <<>>
    ELSE LET rest == LowMemOuter(s, feats, ni1 + 1, hi)
         IN IF AllZero(MachineBlock(s, At(feats, ni1))) THEN rest
            ELSE LowMemInner(s, feats, ni1, ni1 + 1, hi) \o rest

\* lines 336-358: the loop over the graphs
RECURSIVE LowMemConflicts(_, _, _, _)
LowMemConflicts(s, gs, feats, bi) ==
    IF bi >= gs.num_graphs THEN <<>>
    ELSE LowMemOuter(s, feats, At(gs.ptr, bi), At(gs.ptr, bi + 1))
         \o LowMemConflicts(s, gs, feats, bi + 1)

\* lines 267-371
CliqueStage(s, gs, st) ==
    LET feats == SubSeq(st.features, 1, Len(gs.x))
        new == IF s.highmem_conflict_clique THEN HighMemConflicts(s, gs, feats)
               ELSE IF s.mediummem_conflict_clique
                    THEN MediumMemConflicts(s, gs, st.features, 0)
                    ELSE LowMemConflicts(s, gs, feats, 0)
    IN [st EXCEPT
           !.edge_index = @ \o EdgesOf(new),
           !.edge_attr = CatEdgeAttr(s, @, CodesOf(new)),
           !.conflict_edges = new]

\* HubEdges with the hubs counted from the end of the real nodes
HubEdgesRealOffset(s, gs, st) ==
    LET nnodes == Len(gs.x)
        machineid == AsTensor([i \in 1..nnodes |-> MachineId(s, st.features[i])])
        idxaffected == SelectSeq([i \in 1..nnodes |-> i - 1],
                                 LAMBDA i : At(machineid, i) # -1)
        mid == [k \in 1..Len(idxaffected) |-> At(machineid, idxaffected[k])]
        bid == [k \in 1..Len(idxaffected) |-> At(gs.batch, idxaffected[k])]
        targetmachinenode ==
            [k \in 1..Len(idxaffected) |->
                bid[k] * s.max_n_machines + mid[k] + nnodes]
    IN Triples(idxaffected \o targetmachinenode,
               targetmachinenode \o idxaffected,
               [k \in 1..Len(mid) |-> mid[k] + ConflictCodeBase]
               \o [k \in 1..Len(mid) |-> mid[k] + ConflictCodeBase + s.max_n_machines])

\* lines 386-393: the task -> hub and hub -> task edges
HubEdges(s, gs, st) ==
    LET nnodes == Len(gs.x)
        machineid == AsTensor([i \in 1..nnodes |-> MachineId(s, st.features[i])])
        idxaffected == SelectSeq([i \in 1..nnodes |-> i - 1],
                                 LAMBDA i : At(machineid, i) # -1)
        mid == [k \in 1..Len(idxaffected) |-> At(machineid, idxaffected[k])]
        bid == [k \in 1..Len(idxaffected) |-> At(gs.batch, idxaffected[k])]
        targetmachinenode ==
            [k \in 1..Len(idxaffected) |->
                bid[k] * s.max_n_machines + mid[k] + st.node_offset]
    IN Triples(idxaffected \o targetmachinenode,
               targetmachinenode \o idxaffected,
               [k \in 1..Len(mid) |-> mid[k] + ConflictCodeBase]
               \o [k \in 1..Len(mid) |-> mid[k] + ConflictCodeBase + s.max_n_machines])

\* line 399: features[:, 6 : 6 + self.max_n_machines] = 0
ZeroMachineBlock(s, feats) ==
    [i \in 1..Len(feats) |->
        [c \in 1..Len(feats[i]) |->
            IF c > MachineCol /\ c <= MachineCol + s.max_n_machines
            THEN 0 ELSE feats[i][c]]]

\* lines 398-399: the assignment writes into the tensor `features` names,
\* which is graph_state.x itself as long as no torch.cat has replaced it
InPlaceZero(s, st) ==
    IF s.conflicts # "att"
    THEN [st EXCEPT !.features = ZeroMachineBlock(s, @),
                    !.x = IF st.aliased THEN ZeroMachineBlock(s, @) ELSE @]
    ELSE st

\* NodeStage with the machine block zeroed before the hub rows are appended
NodeStageZeroFirst(s, gs, st) ==
    LET n_batch == gs.num_graphs
        new == HubEdges(s, gs, st)
        nbid == [k \in 1..(n_batch * s.max_n_machines) |->
                    (k - 1) \div s.max_n_machines]
        zeroed == InPlaceZero(s, st)
    IN [zeroed EXCEPT
           !.features = @ \o [k \in 1..(n_batch * s.max_n_machines) |-> ZeroRow],
           !.aliased = FALSE,
           !.batch_id = IF s.normalize THEN @ \o nbid ELSE @,
           !.edge_index = @ \o EdgesOf(new),
           !.edge_attr = CatEdgeAttr(s, @, CodesOf(new)),
           !.node_offset = @ + n_batch * s.max_n_machines,
           !.conflict_edges = new]

\* NodeStage with the hub rows given the graph ids 0, 1, .. in turn
NodeStageIdsInTurn(s, gs, st) ==
    LET n_batch == gs.num_graphs
        new == HubEdges(s, gs, st)
        nbid == [k \in 1..(n_batch * s.max_n_machines) |-> (k - 1) % n_batch]
        cat == [st EXCEPT
                   !.features = @ \o [k \in 1..(n_batch * s.max_n_machines) |-> ZeroRow],
                   !.aliased = FALSE,
                   !.batch_id = IF s.normalize THEN @ \o nbid ELSE @,
                   !.edge_index = @ \o EdgesOf(new),
                   !.edge_attr = CatEdgeAttr(s, @, CodesOf(new)),
                   !.node_offset = @ + n_batch * s.max_n_machines,
                   !.conflict_edges = new]
    IN InPlaceZero(s, cat)

\* lines 373-399
NodeStage(s, gs, st) ==
    LET n_batch == gs.num_graphs
        new == HubEdges(s, gs, st)
        nbid == [k \in 1..(n_batch * s.max_n_machines) |->
                    (k - 1) \div s.max_n_machines]
        cat == [st EXCEPT
                   !.features = @ \o [k \in 1..(n_batch * s.max_n_machines) |-> ZeroRow],
                   !.aliased = FALSE,
                   !.batch_id = IF s.normalize THEN @ \o nbid ELSE @,
                   !.edge_index = @ \o EdgesOf(new),
                   !.edge_attr = CatEdgeAttr(s, @, CodesOf(new)),
                   !.node_offset = @ + n_batch * s.max_n_machines,
                   !.conflict_edges = new]
    IN InPlaceZero(s, cat)

\* lines 267-399
ConflictStage(s, gs, st) ==
    IF s.conflicts = "clique" THEN CliqueStage(s, gs, st)
    ELSE IF s.conflicts = "node" THEN NodeStage(s, gs, st)
    ELSE st

\* lines 401-402
SwapStage(s, ei) ==
    IF ~s.reverse_adj THEN [k \in 1..Len(ei) |-> <<ei[k][2], ei[k][1]>>] ELSE ei

Augment(s, gs) == ConflictStage(s, gs, PoolingStage(s, gs, Start(s, gs)))

(***************************************************************************)
(* forward, message passing (lines 404-430).  A tensor is a record of its  *)
(* row count, its width and its value, the value being the expression that *)
(* computed it, written in prefix form.  Tensors live in a heap and the    *)
(* locals hold references, so that the in-place add of line 427 is seen    *)
(* through every reference to the tensor it updates.                       *)
(***************************************************************************)
Tensor(rows, width, val) == [rows |-> rows, width |-> width, val |-> val]

GraphNorm(name, t) == [t EXCEPT !.val = <<name>> \o @]

\* self.embedder: an MLP from the input width to the hidden width
Embedder(s, t) ==
    Tensor(t.rows, s.hidden_dim_features_extractor, <<"embedder">> \o t.val)

\* self.features_extractors[layer](features, edge_index, edge_attr[layer]):
\* the attention operator, built with add_self_loops, reads its fill_value
\* for the attributes of the self loops it adds
ConvOut(s, fe, layer, t) ==
    Tensor(t.rows,
           s.hidden_dim_features_extractor * fe[layer + 1].heads,
           <<"conv", ToString(layer)>>
           \o (IF fe[layer + 1].op = "GATv2Conv"
               THEN <<fe[layer + 1].fill_value>> ELSE <<>>)
           \o t.val)

Elu(t) == [t EXCEPT !.val = <<"elu">> \o @]

\* self.mlps[layer]: an MLP from hidden * heads back to the hidden width
AuxMlp(s, layer, t) ==
    Tensor(t.rows, s.hidden_dim_features_extractor,
           <<"mlp", ToString(layer)>> \o t.val)

TensorAdd(a, b) == [a EXCEPT !.val = <<"add">> \o a.val \o b.val]

\* binding `features` to a freshly allocated tensor
NewTensor(ls, t) ==
    [ls EXCEPT !.heap = Append(@, t), !.features = Len(ls.heap) + 1]

Cur(ls) == ls.heap[ls.features]

\* PostConv without the auxiliary MLP of the attention operator
PostConvNoMlp(s, layer, ls) ==
    IF s.graph_has_relu \/ s.gconv_type = "gatv2"
    THEN NewTensor(ls, Elu(Cur(ls))) ELSE ls

\* lines 419-422: ELU and auxiliary MLP after the convolution
PostConv(s, layer, ls) ==
    LET l1 == IF s.graph_has_relu \/ s.gconv_type = "gatv2"
              THEN NewTensor(ls, Elu(Cur(ls))) ELSE ls
    IN IF s.gconv_type = "gatv2"
       THEN NewTensor(l1, AuxMlp(s, layer, Cur(l1))) ELSE l1

\* RecordAndResidual with the add written out of place (features = features + ...)
RecordAndResidualCopy(s, layer, ls) ==
    LET l1 == [ls EXCEPT !.features_list = Append(@, ls.features)]
        prev == l1.heap[l1.features_list[Len(l1.features_list) - 1]]
        l2 == IF s.residual
              THEN NewTensor(l1, TensorAdd(Cur(l1), prev))
              ELSE l1
    IN IF s.residual /\ s.normalize
       THEN NewTensor(l2, GraphNorm("normsbis" \o ToString(layer), Cur(l2)))
       ELSE l2

\* lines 425-429: record the layer's tensor, then the residual add
RecordAndResidual(s, layer, ls) ==
    LET l1 == [ls EXCEPT !.features_list = Append(@, ls.features)]
        prev == l1.heap[l1.features_list[Len(l1.features_list) - 1]]
        l2 == IF s.residual
              THEN [l1 EXCEPT !.heap[l1.features] = TensorAdd(@, prev)]
              ELSE l1
    IN IF s.residual /\ s.normalize
       THEN NewTensor(l2, GraphNorm("normsbis" \o ToString(layer), Cur(l2)))
       ELSE l2

\* line 417: the attention operator's fill_value is overwritten before the
\* operator of the layer is applied; fe is self.features_extractors
SetFillValue(s, layer, fe) ==
    IF s.gconv_type = "gatv2"
    THEN [fe EXCEPT ![layer + 1].fill_value = "weight[0]"]
    ELSE fe

\* Layer with the fill_value written after the convolution has run
LayerFillAfter(s, layer, ls) ==
    LET l1 == NewTensor([ls EXCEPT !.fe = SetFillValue(s, layer, ls.fe)],
                        ConvOut(s, ls.fe, layer, Cur(ls)))
        l2 == PostConv(s, layer, l1)
        l3 == IF s.normalize
              THEN NewTensor(l2, GraphNorm("norms" \o ToString(layer), Cur(l2)))
              ELSE l2
        l4 == RecordAndResidual(s, layer, l3)
    IN [l4 EXCEPT !.layer_input = Append(@, Cur(ls)),
                  !.layer_conv = Append(@, Cur(l2))]

\* lines 416-429: one iteration of the layer loop
Layer(s, layer, ls) ==
    LET fe == SetFillValue(s, layer, ls.fe)
        l1 == NewTensor([ls EXCEPT !.fe = fe], ConvOut(s, fe, layer, Cur(ls)))
        l2 == PostConv(s, layer, l1)
        l3 == IF s.normalize
              THEN NewTensor(l2, GraphNorm("norms" \o ToString(layer), Cur(l2)))
              ELSE l2
        l4 == RecordAndResidual(s, layer, l3)
    IN [l4 EXCEPT !.layer_input = Append(@, Cur(ls)),
                  !.layer_conv = Append(@, Cur(l2))]

RECURSIVE LayerLoop(_, _, _)
LayerLoop(s, layer, ls) ==
    IF layer >= NLayers(s) THEN ls
    ELSE LayerLoop(s, layer + 1, Layer(s, layer, ls))

\* lines 405-413: input normalization and the embedder
EmbedStage(s, st) ==
    LET l0 == [heap |-> <<Tensor(Len(st.features), InputDim, <<"features">>)>>,
               features |-> 1,
               fe |-> s.features_extractors,
               features_list |-> <<>>,
               layer_input |-> <<>>,
               layer_conv |-> <<>>]
        l1 == IF s.normalize THEN NewTensor(l0, GraphNorm("norm0", Cur(l0))) ELSE l0
        l2 == [l1 EXCEPT !.features_list = Append(@, l1.features)]
        l3 == NewTensor(l2, Embedder(s, Cur(l2)))
        l4 == IF s.normalize THEN NewTensor(l3, GraphNorm("norm1", Cur(l3))) ELSE l3
    IN [l4 EXCEPT !.features_list = Append(@, l4.features)]

MessagePassing(s, st) == LayerLoop(s, 0, EmbedStage(s, st))

\* line 430: the tensors torch.cat reads through features_list
FeaturesList(ls) == [k \in 1..Len(ls.features_list) |-> ls.heap[ls.features_list[k]]]

RECURSIVE SumWidth(_)
SumWidth(ts) == IF ts = <<>> THEN 0 ELSE Head(ts).width + SumWidth(Tail(ts))

(***************************************************************************)
(* forward, readout (lines 432-451).  graph_rows[g + 1] lists the rows of  *)
(* the concatenated tensor that graph g's embedding is computed from.      *)
(***************************************************************************)
\* Readout with every unrecognized pooling mode read as "max"
ReadoutFallback(s, gs, parts) ==
    LET width == SumWidth(parts)
        nreal == Len(gs.x)
        n_batch == gs.num_graphs
        last == (nreal * width) \div (gs.batch_size * gs.n_nodes)
        reduced == [g \in 1..gs.batch_size |->
                       [k \in 1..gs.n_nodes |-> (g - 1) * gs.n_nodes + k - 1]]
    IN CASE s.graph_pooling = "avg" ->
              [raised |-> "none", pooling |-> "avg", graph_rows |-> reduced,
               shape |-> <<gs.batch_size, gs.n_nodes, last + last>>]
         [] s.graph_pooling = "learn" ->
              [raised |-> "none", pooling |-> "learn",
               graph_rows |-> [g \in 1..n_batch |-> <<nreal + g - 1>>],
               shape |-> <<gs.batch_size, gs.n_nodes, last + last>>]
         [] OTHER ->
              [raised |-> "none", pooling |-> "max", graph_rows |-> reduced,
               shape |-> <<gs.batch_size, gs.n_nodes, last + last>>]

\* Readout with the pooling rows taken from the end of the feature tensor
ReadoutLastRows(s, gs, parts) ==
    LET width == SumWidth(parts)
        nreal == Len(gs.x)
        n_batch == gs.num_graphs
        last == (nreal * width) \div (gs.batch_size * gs.n_nodes)
        reduced == [g \in 1..gs.batch_size |->
                       [k \in 1..gs.n_nodes |-> (g - 1) * gs.n_nodes + k - 1]]
    IN CASE s.graph_pooling = "max" ->
              [raised |-> "none", pooling |-> "max", graph_rows |-> reduced,
               shape |-> <<gs.batch_size, gs.n_nodes, last + last>>]
         [] s.graph_pooling = "avg" ->
              [raised |-> "none", pooling |-> "avg", graph_rows |-> reduced,
               shape |-> <<gs.batch_size, gs.n_nodes, last + last>>]
         [] s.graph_pooling = "learn" ->
              [raised |-> "none", pooling |-> "learn",
               graph_rows |-> [g \in 1..n_batch |->
                                  <<Head(parts).rows - n_batch + g - 1>>],
               shape |-> <<gs.batch_size, gs.n_nodes, last + last>>]
         [] OTHER ->
              [raised |-> "Exception", pooling |-> s.graph_pooling,
               graph_rows |-> <<>>, shape |-> <<>>]

\* lines 432-451; `last` is the dimension reshape(batch_size, n_nodes, -1) infers
Readout(s, gs, parts) ==
    LET width == SumWidth(parts)
        nreal == Len(gs.x)
        n_batch == gs.num_graphs
        last == (nreal * width) \div (gs.batch_size * gs.n_nodes)
        reduced == [g \in 1..gs.batch_size |->
                       [k \in 1..gs.n_nodes |-> (g - 1) * gs.n_nodes + k - 1]]
    IN CASE s.graph_pooling = "max" ->
              [raised |-> "none", pooling |-> "max", graph_rows |-> reduced,
               shape |-> <<gs.batch_size, gs.n_nodes, last + last>>]
         [] s.graph_pooling = "avg" ->
              [raised |-> "none", pooling |-> "avg", graph_rows |-> reduced,
               shape |-> <<gs.batch_size, gs.n_nodes, last + last>>]
         [] s.graph_pooling = "learn" ->
              [raised |-> "none", pooling |-> "learn",
               graph_rows |-> [g \in 1..n_batch |-> <<nreal + g - 1>>],
               shape |-> <<gs.batch_size, gs.n_nodes, last + last>>]
         [] OTHER ->
              [raised |-> "Exception", pooling |-> s.graph_pooling,
               graph_rows |-> <<>>, shape |-> <<>>]

\* forward as a function of the extractor and the observation (lines 212-451)
Run(s, gs) ==
    LET st == Augment(s, gs)
        ls == MessagePassing(s, st)
        parts == FeaturesList(ls)
    IN [st |-> st, ls |-> ls, parts |-> parts, out |-> Readout(s, gs, parts)]

Forward(obs) ==
    /\ constructed = "ok"
    /\ \E r \in {Run(self, obs)} :
          /\ graph_state' = obs
          /\ features' = r.st.features
          /\ edge_index_built' = r.st.edge_index
          /\ edge_index' = SwapStage(self, r.st.edge_index)
          /\ edge_attr' = r.st.edge_attr
          /\ batch_id' = r.st.batch_id
          /\ node_offset' = r.st.node_offset
          /\ pool_edges' = r.st.pool_edges
          /\ conflict_edges' = r.st.conflict_edges
          /\ features_list' = r.parts
          /\ layer_input' = r.ls.layer_input
          /\ layer_conv' = r.ls.layer_conv
          /\ result' = r.out
          /\ x_after' = r.st.x
          /\ called' = IF r.out.raised = "none" THEN "ok" ELSE r.out.raised
          /\ self' = [self EXCEPT !.features_extractors = r.ls.fe]
    /\ UNCHANGED <<constructed, utilvars>>

\* the strategy flags of lines 62-63, reassigned on a constructed extractor
SetCliqueStrategy(highmem, mediummem) ==
    /\ constructed = "ok"
    /\ self.conflicts = "clique"
    /\ <<highmem, mediummem>> #
           <<self.highmem_conflict_clique, self.mediummem_conflict_clique>>
    /\ self' = [self EXCEPT !.highmem_conflict_clique = highmem,
                            !.mediummem_conflict_clique = mediummem]
    /\ UNCHANGED <<constructed, fwdvars, utilvars>>

\* the machine of node k of a canonical observation: the first two nodes
\* share the last machine, the next is unassigned, the others take the
\* machines in turn
CanonicalMachine(k) ==
    IF k <= 2 THEN MaxMachines - 1 ELSE ((k - 3) % (MaxMachines + 1)) - 1

\* the observations of the life-cycle specification: one per batch shape,
\* every other node scheduled
CanonicalObservations ==
    {ToGraph(sh[1], sh[2],
             [k \in 1..(sh[1] * sh[2]) |-> Row((k - 1) % 2, CanonicalMachine(k))]) :
     sh \in Shapes}

Next ==
    \/ \E a \in CtorArgs : Construct(a)
    \/ \E obs \in CanonicalObservations : Forward(obs)

Spec == Init /\ [][Next]_vars

(***************************************************************************)
(* The augmentation specification: extractors built with the attention     *)
(* operator and MaxLayers layers, run on every observation of the bounds.  *)
(***************************************************************************)
AugmentArgs ==
    {a \in CtorArgs : /\ a.gconv_type = "gatv2"
                      /\ a.n_layers_features_extractor = MaxLayers
                      /\ a.graph_pooling \in {"max", "learn"}
                      /\ ~a.residual /\ a.normalize /\ ~a.graph_has_relu}

InitAugment ==
    /\ \E a \in AugmentArgs : self = Ctor(a) /\ constructed = CtorOutcome(Ctor(a))
    /\ NotCalled
    /\ NoProblem

\* the flag settings selecting the dense, the per-graph and the loop strategy
CliqueStrategies == {<<TRUE, TRUE>>, <<FALSE, TRUE>>, <<FALSE, FALSE>>}

\* one forward call per behaviour, the strategy chosen before it: a call
\* depends on no earlier call
NextAugment ==
    /\ called = "none"
    /\ \/ \E sh \in Shapes : \E obs \in Observations(sh) : Forward(obs)
       \/ \E flags \in CliqueStrategies : SetCliqueStrategy(flags[1], flags[2])

SpecAugment == InitAugment /\ [][NextAugment]_vars

(***************************************************************************)
(* src/utils/utils.py: check_sanity (lines 267-277) and the end of         *)
(* load_problem (lines 407-415).  affectations[job][machine] is a machine  *)
(* id or -1; durations[job][machine] is <<real, min, max, mode>>.          *)
(***************************************************************************)
MaxCells == 2

AffValues == {-1, 0}

DurValues == {-1, 2}

\* the <<min, max, mode>> entries of a cell: all given, none given, one
\* missing at each position, one given
DurTails ==
    {<<2, 2, 2>>, <<-1, -1, -1>>, <<-1, 2, 2>>, <<2, -1, 2>>, <<2, 2, -1>>,
     <<-1, -1, 2>>}

DurVectors == {<<real>> \o tail : real \in DurValues, tail \in DurTails}

ProblemShapes ==
    {sh \in (1..MaxCells) \X (1..MaxCells) : sh[1] * sh[2] <= MaxCells}

\* any(x != -1 for x in dur)
AnyNotMinusOne(dur) == \E k \in 1..Len(dur) : dur[k] # -1

\* any(x == -1 for x in dur[1:])
AnyMinusOneAfterReal(dur) == \E k \in 2..Len(dur) : dur[k] = -1

\* any(x == -1 for x in dur): the real duration included
AnyMinusOne(dur) == \E k \in 1..Len(dur) : dur[k] = -1

Raise(message, job, machine) ==
    [raised |-> "Exception", message |-> message, job |-> job, machine |-> machine]

Returns == [raised |-> "none"]

\* CheckSanityFrom with the second test applied to the real duration too
RECURSIVE CheckSanityAllDurations(_, _, _, _)
CheckSanityAllDurations(affs, durs, job, machine) ==
    IF job >= Len(affs) \/ job >= Len(durs) THEN Returns
    ELSE IF machine >= Len(At(affs, job)) \/ machine >= Len(At(durs, job))
         THEN CheckSanityAllDurations(affs, durs, job + 1, 0)
         ELSE LET aff == At(At(affs, job), machine)
                  dur == At(At(durs, job), machine)
              IN IF aff = -1 /\ AnyNotMinusOne(dur)
                 THEN Raise("should be only -1", job, machine)
                 ELSE IF aff # -1 /\ AnyMinusOne(dur)
                      THEN Raise("should not be -1", job, machine)
                      ELSE CheckSanityAllDurations(affs, durs, job, machine + 1)

\* lines 268-277: the two nested loops, from cell (job, machine) on
RECURSIVE CheckSanityFrom(_, _, _, _)
CheckSanityFrom(affs, durs, job, machine) ==
    IF job >= Len(affs) \/ job >= Len(durs) THEN Returns
    ELSE IF machine >= Len(At(affs, job)) \/ machine >= Len(At(durs, job))
         THEN CheckSanityFrom(affs, durs, job + 1, 0)
         ELSE LET aff == At(At(affs, job), machine)
                  dur == At(At(durs, job), machine)
              IN IF aff = -1 /\ AnyNotMinusOne(dur)
                 THEN Raise("should be only -1", job, machine)
                 ELSE IF aff # -1 /\ AnyMinusOneAfterReal(dur)
                      THEN Raise("should not be -1", job, machine)
                      ELSE CheckSanityFrom(affs, durs, job, machine + 1)

check_sanity(affs, durs) == CheckSanityFrom(affs, durs, 0, 0)

\* a[lo : lo + n] of Python
Slice(a, lo, n) ==
    LET hi == IF lo + n > Len(a) THEN Len(a) ELSE lo + n
    IN IF lo >= hi THEN <<>> ELSE SubSeq(a, lo + 1, hi)

\* lines 407-415: what load_problem does with the arrays it has parsed
LoadProblemTail(n_m, affs, durs, load_from_job, load_max_jobs) ==
    LET n == IF load_max_jobs = -1 THEN Len(durs) ELSE load_max_jobs
        a == Slice(affs, load_from_job, n)
        d == Slice(durs, load_from_job, n)
        checked == check_sanity(a, d)
    IN IF checked.raised = "none"
       THEN [raised |-> "none", returned |-> <<Len(a), n_m, a, d>>]
       ELSE checked

\* the arrays of a problem of sh[1] jobs and sh[2] machines
AffectationArrays(sh) == [1..sh[1] -> [1..sh[2] -> AffValues]]

DurationArrays(sh) == [1..sh[1] -> [1..sh[2] -> DurVectors]]

InitSanity ==
    /\ constructed = "none"
    /\ self = NoObject
    /\ NotCalled
    /\ \E sh \in ProblemShapes :
          /\ affectations \in AffectationArrays(sh)
          /\ durations \in DurationArrays(sh)
    /\ sanity = NoCall

CheckSanity ==
    /\ sanity = NoCall
    /\ sanity' = [op |-> "check_sanity",
                  outcome |-> check_sanity(affectations, durations)]
    /\ UNCHANGED <<constructed, self, fwdvars, affectations, durations>>

LoadProblem(load_from_job, load_max_jobs) ==
    /\ sanity = NoCall
    /\ sanity' = [op |-> "load_problem",
                  load_from_job |-> load_from_job,
                  load_max_jobs |-> load_max_jobs,
                  outcome |-> LoadProblemTail(Len(durations[1]), affectations,
                                              durations, load_from_job,
                                              load_max_jobs)]
    /\ UNCHANGED <<constructed, self, fwdvars, affectations, durations>>

NextSanity ==
    \/ CheckSanity
    \/ \E load_from_job \in 0..(MaxCells - 1),
          load_max_jobs \in {-1} \cup (1..MaxCells) :
          /\ load_from_job < Len(affectations)
          /\ LoadProblem(load_from_job, load_max_jobs)

SpecSanity == InitSanity /\ [][NextSanity]_vars
(***************************************************************************)
(* Properties of the conflict edges (SpecAugment).                         *)
(***************************************************************************)
NReal == Len(graph_state.x)

RealNodes == 0..(NReal - 1)

Machines == 0..(self.max_n_machines - 1)

\* the machine block of the observation's row i is the one-hot of machine m
AssignedTo(i, m) ==
    \A c \in Machines :
        At(graph_state.x, i)[MachineCol + 1 + c] = (IF c = m THEN 1 ELSE 0)

Scheduled(i) == At(graph_state.x, i)[1] = 1

GraphOf(i) == At(graph_state.batch, i)

NoDuplicate(seq) == Cardinality(Range(seq)) = Len(seq)

\* C1: in clique mode the conflict edges that forward appended are, as a set
\* of (source, target, edge type) triples, the ones each of the three
\* strategies computes on the same graph batch.
C1_StrategiesAgree ==
    (called # "none" /\ self.conflicts = "clique") =>
        LET feats == SubSeq(features, 1, NReal)
        IN /\ Range(conflict_edges) = Range(HighMemConflicts(self, graph_state, feats))
           /\ Range(conflict_edges) = Range(MediumMemConflicts(self, graph_state, features, 0))
           /\ Range(conflict_edges) = Range(LowMemConflicts(self, graph_state, feats, 0))

C1_Witness ==
    /\ called = "ok" /\ self.conflicts = "clique"
    /\ ~self.highmem_conflict_clique /\ ~self.mediummem_conflict_clique
    /\ graph_state.num_graphs = 2
    /\ Len(conflict_edges) = 2
    /\ \E i \in RealNodes : \A m \in Machines : ~AssignedTo(i, m)

\* the conflict edges the clique mode is to add
CliqueEdges ==
    {t \in {<<i, j, m + ConflictCodeBase>> :
                i \in RealNodes, j \in RealNodes, m \in Machines} :
        /\ t[1] # t[2]
        /\ GraphOf(t[1]) = GraphOf(t[2])
        /\ AssignedTo(t[1], t[3] - ConflictCodeBase)
        /\ AssignedTo(t[2], t[3] - ConflictCodeBase)
        /\ ~(Scheduled(t[1]) /\ Scheduled(t[2]))}

\* C2: with the default (medium-memory) strategy the clique mode adds the
\* directed edge (i, j) tagged m + 3 exactly when i and j are distinct real
\* nodes of one graph, both one-hot on machine m and not both scheduled; each
\* such edge is added once, the edge set is symmetric and no node with an
\* all-zero machine block is an endpoint.
C2_CliqueEdgesExact ==
    (/\ called # "none" /\ self.conflicts = "clique"
     /\ ~self.highmem_conflict_clique /\ self.mediummem_conflict_clique) =>
        /\ Range(conflict_edges) = CliqueEdges
        /\ NoDuplicate(conflict_edges)
        /\ \A t \in Range(conflict_edges) :
              /\ <<t[2], t[1], t[3]>> \in Range(conflict_edges)
              /\ ~AllZero(MachineBlock(self, At(graph_state.x, t[1])))
              /\ ~AllZero(MachineBlock(self, At(graph_state.x, t[2])))

\* three unscheduled nodes on machine 0 in one graph: 6 edges tagged 3
C2_Witness ==
    /\ called = "ok" /\ self.conflicts = "clique"
    /\ ~self.highmem_conflict_clique /\ self.mediummem_conflict_clique
    /\ graph_state.num_graphs = 1 /\ graph_state.n_nodes = 3
    /\ \A i \in RealNodes : AssignedTo(i, 0) /\ ~Scheduled(i)
    /\ Len(conflict_edges) = 6
    /\ \A t \in Range(conflict_edges) : t[3] = ConflictCodeBase

\* the edges forward appended after the observation's and the pooling edges
ConflictTail(ei) ==
    SubSeq(ei, Len(graph_state.edge_index) + Len(pool_edges) + 1, Len(ei))

\* C3: no edge appended by conflict handling joins a node to itself, in the
\* edge index as built and as handed to the layers, whatever the conflict
\* mode, the clique strategy, the pooling mode and the batch size.
C3_NoSelfLoop ==
    called # "none" =>
        /\ \A t \in Range(conflict_edges) : t[1] # t[2]
        /\ ConflictTail(edge_index_built) = EdgesOf(conflict_edges)
        /\ \A e \in Range(ConflictTail(edge_index)) : e[1] # e[2]

C3_Witness ==
    /\ called = "ok" /\ self.conflicts = "node" /\ self.graph_pooling = "learn"
    /\ graph_state.num_graphs = 2
    /\ Len(ConflictTail(edge_index)) = 4

NPool == IF self.graph_pooling = "learn" THEN graph_state.num_graphs ELSE 0

\* the row of the machine-m hub of graph g
Hub(g, m) == NReal + NPool + g * self.max_n_machines + m

AssignedTasks == {i \in RealNodes : \E m \in Machines : AssignedTo(i, m)}

\* the edges the node mode is to add
HubEdgeSet ==
    UNION {{<<p[1], Hub(GraphOf(p[1]), p[2]), p[2] + ConflictCodeBase>>,
            <<Hub(GraphOf(p[1]), p[2]), p[1],
              p[2] + ConflictCodeBase + self.max_n_machines>>} :
           p \in {q \in RealNodes \X Machines : AssignedTo(q[1], q[2])}}

\* C4: in node mode the edges appended (before the direction swap) are, for
\* every assigned task t of graph g on machine m, t -> hub(g, m) tagged m + 3
\* and hub(g, m) -> t tagged m + 3 + max_n_machines, and nothing else: twice
\* the number of assigned tasks; every hub is a row of the augmented feature
\* tensor, placed after the real and the pooling rows.
C4_HubEdgesExact ==
    (called # "none" /\ self.conflicts = "node") =>
        /\ Range(conflict_edges) = HubEdgeSet
        /\ Len(conflict_edges) = 2 * Cardinality(AssignedTasks)
        /\ ConflictTail(edge_index_built) = EdgesOf(conflict_edges)
        /\ Len(features) = NReal + NPool + graph_state.num_graphs * self.max_n_machines
        /\ \A g \in 0..(graph_state.num_graphs - 1), m \in Machines :
              /\ Hub(g, m) < Len(features)
              /\ At(features, Hub(g, m)) = ZeroRow

C4_Witness ==
    /\ called = "ok" /\ self.conflicts = "node" /\ self.graph_pooling = "learn"
    /\ graph_state.num_graphs = 2 /\ graph_state.n_nodes = 2
    /\ AssignedTo(3, 1) /\ AssignedTo(0, 0)
    /\ <<3, Hub(1, 1), 1 + ConflictCodeBase>> \in Range(conflict_edges)
    /\ Len(conflict_edges) = 4
(***************************************************************************)
(* Properties of construction, message passing and readout (Spec).         *)
(***************************************************************************)
AcceptedPooling == {"max", "avg", "learn"}

RecognizedGconv == {"gin", "gatv2", "eg", "pdn"}

\* C5: for every conflict mode and every accepted pooling mode forward returns
\* a tensor of shape (batch_size, n_nodes, 2 x (input width + hidden width x
\* (L + 1))), whose last dimension is the features_dim of construction; the
\* concatenated parts are the input features, the embedder output and the L
\* layer outputs, each with one row per node of the augmented graph.
C5_OutputShape ==
    (called # "none" /\ self.graph_pooling \in AcceptedPooling) =>
        /\ called = "ok"
        /\ result.shape =
               <<graph_state.batch_size, graph_state.n_nodes,
                 2 * (InputDim + HiddenDim * (NLayers(self) + 1))>>
        /\ result.shape[3] = self.features_dim
        /\ Len(features_list) = NLayers(self) + 2
        /\ features_list[1].width = InputDim
        /\ \A k \in 2..Len(features_list) : features_list[k].width = HiddenDim
        /\ \A k \in 1..Len(features_list) :
              features_list[k].rows = Len(features) /\ Len(features) >= NReal

C5_Witness ==
    /\ called = "ok" /\ self.graph_pooling = "learn" /\ self.conflicts = "node"
    /\ self.gconv_type = "gatv2" /\ NLayers(self) = MaxLayers
    /\ graph_state.batch_size = 2 /\ graph_state.n_nodes = 2
    /\ result.shape[3] = 2 * (InputDim + HiddenDim * (MaxLayers + 1))

\* row r of the augmented graph is the pooling node of graph g: every real
\* node of g, and no other node, shares a pooling edge with it
IsPoolNodeOf(r, g) ==
    /\ r >= NReal
    /\ At(features, r) = ZeroRow
    /\ \A i \in RealNodes :
          (GraphOf(i) = g) <=>
              (\E t \in Range(pool_edges) :
                  /\ {t[1], t[2]} = {i, r}
                  /\ t[3] = PoolingCode)
    /\ \A t \in Range(conflict_edges) : t[1] # r /\ t[2] # r

\* C6: with learned pooling the embedding of graph g is read from row
\* (number of real nodes + g) of the concatenated tensor, which is the row of
\* g's virtual pooling node, never a real node's or a machine hub's row, also
\* in node conflict mode.
C6_LearnedReadout ==
    (called = "ok" /\ self.graph_pooling = "learn") =>
        /\ Len(result.graph_rows) = graph_state.num_graphs
        /\ \A g \in 0..(graph_state.num_graphs - 1) :
              /\ At(result.graph_rows, g) = <<NReal + g>>
              /\ NReal + g < Len(features)
              /\ IsPoolNodeOf(NReal + g, g)

C6_Witness ==
    /\ called = "ok" /\ self.graph_pooling = "learn" /\ self.conflicts = "node"
    /\ graph_state.num_graphs = 2 /\ graph_state.n_nodes = 2
    /\ conflict_edges # <<>>
    /\ At(result.graph_rows, 1) = <<5>>

\* C7: construction with a convolution type that is none of the recognized
\* ones never ends normally, whatever the number of layers.
C7_UnknownGconvFatal ==
    (constructed # "none" /\ self.gconv_type \notin RecognizedGconv) =>
        constructed # "ok"

\* the constructor arguments an extractor was built from
ArgsOf(s) ==
    [gconv_type |-> s.gconv_type,
     graph_pooling |-> s.graph_pooling,
     graph_has_relu |-> s.graph_has_relu,
     n_layers_features_extractor |-> s.n_layers_features_extractor,
     reverse_adj |-> s.reverse_adj,
     residual |-> s.residual,
     normalize |-> s.normalize,
     conflicts |-> s.conflicts]

\* construction ends the same way whatever the pooling mode
PoolingIgnoredByCtor ==
    constructed # "none" =>
        \A p \in PoolingModes :
            CtorOutcome(Ctor([ArgsOf(self) EXCEPT !.graph_pooling = p])) = constructed

\* a returned embedding is the one of the configured pooling mode
NoFallback ==
    called = "ok" =>
        /\ result.pooling = self.graph_pooling
        /\ \A g \in 0..(graph_state.num_graphs - 1) :
              IF self.graph_pooling = "learn"
              THEN At(result.graph_rows, g) = <<NReal + g>>
              ELSE Range(At(result.graph_rows, g)) = {i \in RealNodes : GraphOf(i) = g}

\* C8 as stated: forward raises exactly for the pooling modes other than
\* "max", "avg" and "learned".
C8_AsStated ==
    /\ PoolingIgnoredByCtor
    /\ called # "none" =>
          (called = "Exception" <=> self.graph_pooling \notin {"max", "avg", "learned"})
    /\ NoFallback

\* C8 amended: construction accepts every pooling mode; forward raises
\* exactly for the pooling modes other than "max", "avg" and "learn", and for
\* these three returns the embedding of that mode.
C8_PoolingModes ==
    /\ PoolingIgnoredByCtor
    /\ called # "none" =>
          (called = "Exception" <=> self.graph_pooling \notin AcceptedPooling)
    /\ NoFallback

C8_Witness ==
    /\ called = "ok" /\ self.graph_pooling = "learn" /\ result.pooling = "learn"
    /\ graph_state.num_graphs = 2

\* C9: construction with a recognized convolution type ends normally with L
\* convolution layers and L edge-attribute encoders, L auxiliary MLPs for
\* the attention operator and L + L normalizers when normalization is on.
C9_RecognizedGconvBuilt ==
    (constructed # "none" /\ self.gconv_type \in RecognizedGconv) =>
        /\ constructed = "ok"
        /\ Len(self.features_extractors) = NLayers(self)
        /\ Len(self.edge_embedder) = NLayers(self)
        /\ (self.gconv_type = "gatv2" => Len(self.mlps) = NLayers(self))
        /\ (self.normalize =>
               Len(self.norms) = NLayers(self) /\ Len(self.normsbis) = NLayers(self))

\* C10: with residual on and normalization off, the tensor recorded for
\* layer i, which is also the one fed to layer i + 1, is the layer's
\* convolution result (after ELU and auxiliary MLP) plus the tensor recorded
\* just before it (the embedder output for layer 0).
C10_ResidualSum ==
    (called # "none" /\ self.residual /\ ~self.normalize) =>
        \A i \in 0..(NLayers(self) - 1) :
            /\ At(features_list, i + 2) =
                   TensorAdd(At(layer_conv, i), At(features_list, i + 1))
            /\ At(layer_input, i) = At(features_list, i + 1)

C10_Witness ==
    /\ called = "ok" /\ self.residual /\ ~self.normalize
    /\ NLayers(self) = MaxLayers /\ self.gconv_type = "gatv2"
    /\ Len(features_list) = MaxLayers + 2

(***************************************************************************)
(* Properties of what a forward call leaves behind (Spec).                 *)
(***************************************************************************)
\* the extractor as __init__ built it
Fresh == Ctor(ArgsOf(self))

\* everything the last forward call computed is what a freshly constructed
\* extractor computes on the same observation
SameAsFresh ==
    called # "none" =>
        LET r == Run(Fresh, graph_state)
        IN /\ features = r.st.features
           /\ edge_index = SwapStage(Fresh, r.st.edge_index)
           /\ edge_attr = r.st.edge_attr
           /\ batch_id = r.st.batch_id
           /\ features_list = r.parts
           /\ layer_input = r.ls.layer_input
           /\ layer_conv = r.ls.layer_conv
           /\ result = r.out

\* the attributes forward has written: fill_value of the attention operators
FillValueOnly ==
    /\ [self EXCEPT !.features_extractors = Fresh.features_extractors] = Fresh
    /\ Len(self.features_extractors) = Len(Fresh.features_extractors)
    /\ \A layer \in 1..Len(self.features_extractors) :
          \/ self.features_extractors[layer] = Fresh.features_extractors[layer]
          \/ /\ self.gconv_type = "gatv2"
             /\ self.features_extractors[layer] =
                    [Fresh.features_extractors[layer] EXCEPT !.fill_value = "weight[0]"]

\* C11 as stated: every attribute of the extractor and of its sub-modules has
\* after forward the value construction gave it, and each call returns what a
\* fresh extractor returns on the same observation.
C11_AsStated ==
    constructed = "ok" => (self = Fresh /\ SameAsFresh)

\* C11 amended: forward leaves every attribute of the extractor and of its
\* sub-modules as construction set it, except the fill_value of each layer's
\* attention operator (gatv2), which it overwrites with row 0 of the layer's
\* edge encoder before the operator runs; whatever calls came before, a call
\* returns what a fresh extractor returns on the same observation.
C11_StatelessButFillValue ==
    constructed = "ok" => (FillValueOnly /\ SameAsFresh)

C11_Witness ==
    /\ called = "ok" /\ self.gconv_type = "gatv2" /\ NLayers(self) = MaxLayers
    /\ \A layer \in 1..MaxLayers :
          /\ Fresh.features_extractors[layer].fill_value = "mean"
          /\ self.features_extractors[layer].fill_value = "weight[0]"
    /\ \E k \in 1..Len(features_list[3].val) : features_list[3].val[k] = "weight[0]"

(***************************************************************************)
(* Properties of the augmented edge list (Spec).                           *)
(***************************************************************************)
\* the edge list handed to the layers by extractor s on batch gs, each edge
\* with the edge-type code its attribute row encodes
HandedEdges(s, gs) ==
    LET st == Augment(s, gs)
        ei == SwapStage(s, st.edge_index)
    IN [k \in 1..Len(ei) |-> <<ei[k][1], ei[k][2], st.edge_attr[1][k].code>>]

\* the same for the last forward call
Handed ==
    [k \in 1..Len(edge_index) |->
        <<edge_index[k][1], edge_index[k][2], edge_attr[1][k].code>>]

Flipped(s) == [s EXCEPT !.reverse_adj = ~@]

Swapped(t) == <<t[2], t[1], t[3]>>

NOriginal == Len(graph_state.edge_index)

\* C12 as stated: the edge list handed to the layers is, edge by edge, the one
\* obtained with reverse_adj negated with source and target swapped, the
\* code kept.
C12_AsStated ==
    (called # "none" /\ NLayers(self) > 0) =>
        LET other == HandedEdges(Flipped(self), graph_state)
        IN /\ Len(other) = Len(Handed)
           /\ \A k \in 1..Len(Handed) : Handed[k] = Swapped(other[k])

\* C12 amended: negating reverse_adj swaps source and target of every
\* original and every conflict edge, the code kept, and leaves the pooling
\* edges as they are: a pooling edge runs from the real node to the pooling
\* node of its graph under both settings.
C12_SwapButPooling ==
    (called # "none" /\ NLayers(self) > 0) =>
        LET other == HandedEdges(Flipped(self), graph_state)
        IN /\ Len(other) = Len(Handed)
           /\ Len(Handed) = NOriginal + Len(pool_edges) + Len(conflict_edges)
           /\ \A k \in 1..Len(Handed) :
                 IF k > NOriginal /\ k <= NOriginal + Len(pool_edges)
                 THEN /\ Handed[k] = other[k]
                      /\ Handed[k][1] \in RealNodes
                      /\ Handed[k][2] = NReal + GraphOf(Handed[k][1])
                      /\ Handed[k][3] = PoolingCode
                 ELSE Handed[k] = Swapped(other[k])

C12_Witness ==
    /\ called = "ok" /\ self.graph_pooling = "learn" /\ ~self.reverse_adj
    /\ self.conflicts = "node" /\ NLayers(self) = MaxLayers
    /\ NOriginal = 2 /\ Len(pool_edges) = 4 /\ Len(conflict_edges) = 6
    /\ Handed[1] = <<1, 0, PrecedenceCode>>
    /\ Handed[3] = <<0, NReal, PoolingCode>>

PoolNodes == NReal..(NReal + NPool - 1)

\* the pooling node of real node v's graph
PoolOf(v) == NReal + GraphOf(v)

\* rows NReal .. NReal + num_graphs - 1 of the working feature tensor are the
\* pooling nodes, all zero, one per graph
PoolRows ==
    /\ NPool = graph_state.num_graphs
    /\ Len(features) >= NReal + NPool
    /\ \A r \in PoolNodes : At(features, r) = ZeroRow
    /\ node_offset = Len(features)

\* C13 as stated: with learned pooling one zero row is appended per graph and
\* the edge list holds, for every real node v, both v -> pool and pool -> v
\* tagged 2, and no pooling edge to another graph's pooling node.
C13_AsStated ==
    (called = "ok" /\ self.graph_pooling = "learn" /\ NLayers(self) > 0) =>
        /\ PoolRows
        /\ \A v \in RealNodes :
              /\ <<v, PoolOf(v), PoolingCode>> \in Range(Handed)
              /\ <<PoolOf(v), v, PoolingCode>> \in Range(Handed)
        /\ \A t \in Range(Handed) :
              t[3] = PoolingCode =>
                  \E v \in RealNodes : {t[1], t[2]} = {v, PoolOf(v)}

\* C13 amended: with pooling mode "learn" one zero row is appended per graph
\* and the edge list handed to the layers holds, for every real node v,
\* exactly one pooling edge, v -> pool(graph of v), tagged 2; no edge leaves a
\* pooling node and no pooling edge reaches another graph's pooling node.
C13_OneWayPooling ==
    (called = "ok" /\ self.graph_pooling = "learn" /\ NLayers(self) > 0) =>
        /\ PoolRows
        /\ Len(pool_edges) = NReal
        /\ \A k \in 1..NReal :
              Handed[NOriginal + k] = <<k - 1, PoolOf(k - 1), PoolingCode>>
        /\ \A k \in 1..Len(Handed) :
              /\ Handed[k][1] \notin PoolNodes
              /\ (Handed[k][3] = PoolingCode \/ Handed[k][2] \in PoolNodes) =>
                     (k > NOriginal /\ k <= NOriginal + NReal)

C13_Witness ==
    /\ called = "ok" /\ self.graph_pooling = "learn" /\ self.reverse_adj
    /\ self.conflicts = "clique" /\ NLayers(self) = MaxLayers
    /\ graph_state.num_graphs = 2 /\ graph_state.n_nodes = 2
    /\ Len(conflict_edges) = 2
    /\ Handed[NOriginal + 4] = <<3, 5, PoolingCode>>

(***************************************************************************)
(* Properties of the working feature tensor (Spec).                        *)
(***************************************************************************)
MachineCols == (MachineCol + 1)..(MachineCol + self.max_n_machines)

\* C14: in node mode every row of the working feature tensor (real, pooling
\* and hub rows) is zero on the machine block and every real row keeps the
\* observation's values on the other columns; in every other conflict mode the
\* real rows are the observation's rows; in every mode graph_state.x holds at
\* return what the collaborator put there, and with normalization off the
\* first recorded tensor is still the unmodified input.
C14_MachineBlockZeroing ==
    called # "none" =>
        /\ IF self.conflicts = "node"
           THEN /\ \A r \in 1..Len(features) : \A c \in MachineCols : features[r][c] = 0
                /\ \A r \in 1..NReal : \A c \in (1..InputDim) \ MachineCols :
                      features[r][c] = graph_state.x[r][c]
           ELSE SubSeq(features, 1, NReal) = graph_state.x
        /\ Len(features) >= NReal
        /\ x_after = graph_state.x
        /\ ~self.normalize =>
               features_list[1] = Tensor(Len(features), InputDim, <<"features">>)

C14_Witness ==
    /\ called = "ok" /\ self.conflicts = "node" /\ self.graph_pooling = "max"
    /\ NReal = 3
    /\ \E r \in 1..NReal : \E c \in MachineCols : graph_state.x[r][c] = 1
    /\ \A r \in 1..Len(features) : \A c \in MachineCols : features[r][c] = 0
    /\ Len(features) = NReal + graph_state.num_graphs * self.max_n_machines

(***************************************************************************)
(* Properties of the edge-attribute encoders (Spec).                       *)
(***************************************************************************)
\* C15: for every recognized convolution type each layer's edge-attribute
\* encoder produces vectors of the width its convolution operator was built
\* to consume: 1 for the operator taking scalar edge weights (PDNConv), the
\* hidden width otherwise.
C15_EdgeWidthMatches ==
    (constructed = "ok" /\ self.gconv_type \in RecognizedGconv) =>
        \A layer \in 1..NLayers(self) :
            LET conv == self.features_extractors[layer]
                width == self.edge_embedder[layer].embedding_dim
            IN conv.edge_dim # 0 =>
                   /\ width = conv.edge_dim
                   /\ width = IF conv.op = "PDNConv" THEN 1 ELSE HiddenDim

(***************************************************************************)
(* Properties of the loader's consistency check (SpecSanity).              *)
(***************************************************************************)
\* cell (job, machine) pairs an affectation with durations it cannot have
BadCell(affs, durs, job, machine) ==
    LET aff == At(At(affs, job), machine)
        dur == At(At(durs, job), machine)
    IN \/ aff = -1 /\ (\E k \in 1..4 : dur[k] # -1)
       \/ aff # -1 /\ (\E k \in 2..4 : dur[k] = -1)

Cells(affs) ==
    {c \in (0..(MaxCells - 1)) \X (0..(MaxCells - 1)) :
        c[1] < Len(affs) /\ c[2] < Len(At(affs, c[1]))}

Consistent(affs, durs) ==
    \A c \in Cells(affs) : ~BadCell(affs, durs, c[1], c[2])

\* the outcome is an exception exactly when a cell is bad, and then names a
\* bad cell, the first in job-major order
RaisesIffBad(outcome, affs, durs) ==
    /\ outcome.raised = "Exception" <=> ~Consistent(affs, durs)
    /\ outcome.raised = "Exception" =>
          /\ <<outcome.job, outcome.machine>> \in Cells(affs)
          /\ BadCell(affs, durs, outcome.job, outcome.machine)
          /\ \A c \in Cells(affs) :
                BadCell(affs, durs, c[1], c[2]) =>
                    (c[1] > outcome.job
                     \/ (c[1] = outcome.job /\ c[2] >= outcome.machine))

\* C16: check_sanity raises, naming a job and a machine, exactly when some
\* cell has affectation -1 with a duration other than -1, or an affectation
\* other than -1 with a min, max or mode duration of -1 (the real duration
\* does not count); load_problem applies it to the selected job slice and
\* returns that slice only when it is consistent.
C16_CheckSanity ==
    /\ sanity.op = "check_sanity" =>
          RaisesIffBad(sanity.outcome, affectations, durations)
    /\ sanity.op = "load_problem" =>
          LET n == IF sanity.load_max_jobs = -1 THEN Len(durations)
                   ELSE sanity.load_max_jobs
              a == Slice(affectations, sanity.load_from_job, n)
              d == Slice(durations, sanity.load_from_job, n)
          IN /\ RaisesIffBad(sanity.outcome, a, d)
             /\ sanity.outcome.raised = "none" =>
                   /\ sanity.outcome.returned = <<Len(a), Len(durations[1]), a, d>>
                   /\ Consistent(sanity.outcome.returned[3],
                                 sanity.outcome.returned[4])

\* an assigned cell whose real duration alone is -1 passes; the job after it
\* is reported
C16_Witness ==
    /\ sanity.op = "check_sanity"
    /\ Len(affectations) = 2
    /\ affectations[1][1] = 0 /\ durations[1][1] = <<-1, 2, 2, 2>>
    /\ affectations[2][1] = -1 /\ durations[2][1] = <<-1, -1, -1, 2>>
    /\ sanity.outcome = Raise("should be only -1", 1, 0)

\* the edge-type codes forward passed to the encoder of a layer
CodesPassed(layer) == {edge_attr[layer][k].code : k \in 1..Len(edge_attr[layer])}

\* the k-th attribute row of a layer encodes a code of the range lo..hi
CodeWithin(layer, k, lo, hi) ==
    edge_attr[layer][k].code >= lo /\ edge_attr[layer][k].code <= hi

\* C17: every edge-type code passed to a layer's encoder is an index of the
\* encoder's table: original edges pass 1, pooling edges 2, clique edges
\* 3 .. max_n_machines + 2, node-mode edges 3 .. 2 * max_n_machines + 2, and
\* the table has 5 rows when no conflict edges are built and more otherwise.
C17_CodesInTable ==
    called # "none" =>
        \A layer \in 1..NLayers(self) :
            LET table == self.edge_embedder[layer].num_embeddings
                M == self.max_n_machines
            IN /\ \A code \in CodesPassed(layer) : 0 <= code /\ code < table
               /\ Len(edge_attr[layer]) =
                      NOriginal + Len(pool_edges) + Len(conflict_edges)
               /\ \A k \in 1..Len(edge_attr[layer]) :
                     IF k <= NOriginal
                     THEN CodeWithin(layer, k, PrecedenceCode, PrecedenceCode)
                     ELSE IF k <= NOriginal + Len(pool_edges)
                     THEN CodeWithin(layer, k, PoolingCode, PoolingCode)
                     ELSE IF self.conflicts = "clique"
                     THEN CodeWithin(layer, k, ConflictCodeBase, M + 2)
                     ELSE CodeWithin(layer, k, ConflictCodeBase, 2 * M + 2)
               /\ IF self.conflicts \in {"clique", "node"}
                  THEN table > EmbeddingBase ELSE table = EmbeddingBase
               /\ self.conflicts \notin {"clique", "node"} => conflict_edges = <<>>

\* node mode with learned pooling: the codes 1, 2, the lowest and the highest
\* hub code are passed to the last layer's encoder
C17_Witness ==
    /\ called = "ok" /\ self.conflicts = "node" /\ self.graph_pooling = "learn"
    /\ NLayers(self) = MaxLayers
    /\ {PrecedenceCode, PoolingCode, ConflictCodeBase, 2 * MaxMachines + 2}
           \subseteq CodesPassed(MaxLayers)
    /\ self.edge_embedder[MaxLayers].num_embeddings = 2 * MaxMachines + 6

\* the codes of an edge list built from the observation's edges, the pooling
\* triples and the conflict triples
StageCodes(n, pool, conflict) ==
    [k \in 1..n |-> PrecedenceCode] \o CodesOf(pool) \o CodesOf(conflict)

\* in the working values st, every layer has one attribute row per edge, the
\* k-th being the layer's own encoder applied to the code of the k-th edge
Aligned(s, st) ==
    LET codes == StageCodes(NOriginal, st.pool_edges, st.conflict_edges)
    IN /\ Len(st.edge_attr) = NLayers(s)
       /\ Len(st.edge_index) = Len(codes)
       /\ \A layer \in 1..NLayers(s) :
             /\ Len(st.edge_attr[layer]) = Len(st.edge_index)
             /\ \A k \in 1..Len(st.edge_index) :
                   st.edge_attr[layer][k] = [layer |-> layer - 1, code |-> codes[k]]

C19_RecordedIsLayerOutput ==
    called # "none" =>
        \A i \in 0..(NLayers(self) - 1) :
            LET recorded == At(features_list, i + 2)
            IN /\ i + 1 < NLayers(self) => At(layer_input, i + 1) = recorded
               /\ (self.residual /\ self.normalize) =>
                      Head(recorded.val) = "normsbis" \o ToString(i)
               /\ self.residual => \E k \in 1..Len(recorded.val) : recorded.val[k] = "add"

\* the graph of row r (0-based) of the working feature tensor: real rows,
\* then one pooling row per graph, then max_n_machines hub rows per graph
RowGraph(r) ==
    IF r < NReal THEN GraphOf(r)
    ELSE IF r < NReal + NPool THEN r - NReal
    ELSE (r - NReal - NPool) \div self.max_n_machines

\* C20: with normalization on, batch_id has one entry per row of the working
\* feature tensor, the entry of a row being the id of its graph: real rows
\* keep theirs, the pooling row of graph g has g, each hub row of graph g has
\* g; every normalized tensor has that many rows.
C20_BatchIdPerRow ==
    (called # "none" /\ self.normalize) =>
        /\ Len(batch_id) = Len(features)
        /\ Len(features) =
               NReal + NPool
               + (IF self.conflicts = "node"
                  THEN graph_state.num_graphs * self.max_n_machines ELSE 0)
        /\ \A r \in 0..(Len(batch_id) - 1) : At(batch_id, r) = RowGraph(r)
        /\ \A k \in 1..Len(features_list) : features_list[k].rows = Len(batch_id)
        /\ \A k \in 1..Len(layer_input) : layer_input[k].rows = Len(batch_id)
        /\ self.conflicts = "node" =>
               \A g \in 0..(graph_state.num_graphs - 1), m \in Machines :
                   At(batch_id, Hub(g, m)) = g

C20_Witness ==
    /\ called = "ok" /\ self.normalize
    /\ self.conflicts = "node" /\ self.graph_pooling = "learn"
    /\ graph_state.num_graphs = 2 /\ graph_state.n_nodes = 2
    /\ batch_id = <<0, 0, 1, 1>> \o <<0, 1>>
                  \o [k \in 1..(2 * MaxMachines) |-> (k - 1) \div MaxMachines]
    /\ NLayers(self) = MaxLayers
====
